---------------------------- MODULE Spec2Model ----------------------------
(***************************************************************************)
(* A model of libgit2's patch application engine, src/src/apply.c:         *)
(* the line image, the hunk matcher and applier, the text and binary       *)
(* patch drivers, the per-file driver git_apply__patch and the batch       *)
(* entry points git_apply and git_apply_tree.                              *)
(*                                                                         *)
(* Byte buffers are sequences of one-character strings.  A line is a       *)
(* record with the fields of git_diff_line that apply.c reads or writes.   *)
(***************************************************************************)
EXTENDS Integers, Sequences, FiniteSets, TLC

VARIABLES
    pc,            \* position of the modelled call
    source,        \* the source buffer handed to the call (source_len = Len(source))
    tail,          \* the bytes that lie in memory right after the source buffer
    patch,         \* the git_patch being applied
    image,         \* patch_image.lines of apply_hunks
    hunk_i,        \* index of the next hunk of git_array_foreach(patch->hunks, ...)
    contents_out,  \* git_buf *contents_out
    filename_out,  \* char **filename_out
    mode_out,      \* unsigned int *mode_out
    error,         \* the value the call returns
    errmsg,        \* the message last given to giterr_set
    repo,          \* the repository: in-memory index, index file, workdir, object store
    diff,          \* the git_diff of a batch: a sequence of deltas with their patches
    opts,          \* git_apply_options (location), or the entry point in use
    postimage,     \* the postimage index of a batch
    delta_i,       \* index of the next delta of the apply pass
    calls,         \* the collaborator calls made so far by the batch, in order
    out_index,     \* git_index **out of git_apply_tree
    before         \* the repository as it was when the batch was entered

pvars == <<pc, source, tail, patch, image, hunk_i, contents_out,
           filename_out, mode_out, error, errmsg>>
bvars == <<repo, diff, opts, postimage, delta_i, calls, out_index, before>>
vars == <<pvars, bvars>>
patch_locals == <<source, tail, patch, image, hunk_i, contents_out,
                  filename_out, mode_out, error, errmsg>>

(***************************************************************************)
(* Program constants.                                                      *)
(***************************************************************************)
NL == "\n"
NULL == "NULL"
GIT_EAPPLYFAIL == -35
GIT_ENOTFOUND == -3
GIT_ERROR == -1
GIT_FILEMODE_BLOB == 33188

GIT_DIFF_LINE_CONTEXT == " "
GIT_DIFF_LINE_ADDITION == "+"
GIT_DIFF_LINE_DELETION == "-"

GIT_DELTA_ADDED == "added"
GIT_DELTA_DELETED == "deleted"
GIT_DELTA_MODIFIED == "modified"
GIT_DELTA_RENAMED == "renamed"

GIT_DIFF_BINARY_LITERAL == "literal"
GIT_DIFF_BINARY_DELTA == "delta"

(***************************************************************************)
(* Helpers on sequences.                                                   *)
(***************************************************************************)
Min(a, b) == IF a < b THEN a ELSE b

RECURSIVE Concat(_)
Concat(ss) == IF ss = <<>> THEN <<>> ELSE Head(ss) \o Concat(Tail(ss))

\* All sequences over S of length 0..n.
SeqsUpTo(S, n) == UNION {[1..k -> S] : k \in 0..n}

(***************************************************************************)
(* Line image (patch_image).                                               *)
(***************************************************************************)
\* patch_line_init on a line that git_pool_mallocz zeroed (origin 0).
patch_line_init(in, in_len, in_offset) ==
    [origin |-> "nul", content |-> in, content_len |-> in_len,
     content_offset |-> in_offset]

\* memchr(mem + start, '\n', n): whether one of the n bytes from start is a
\* newline, and the offset in mem of the first one.  mem is the source buffer
\* followed by the bytes after it; what lies beyond mem holds no newline
\* within reach.
memchr(mem, start, n) ==
    LET hits == {p \in start..(start + n - 1) : p < Len(mem) /\ mem[p + 1] = NL}
    IN IF hits = {} THEN [found |-> FALSE, pos |-> start]
       ELSE [found |-> TRUE, pos |-> CHOOSE p \in hits : \A q \in hits : p <= q]

\* One iteration of the loop of patch_image_init_fromstr: the end of the line
\* that starts at start.  memchr is given in_len, not the bytes that remain.
line_end(mem, in_len, start) ==
    LET end == memchr(mem, start, in_len)
    IN IF ~end.found THEN in_len
       ELSE IF end.pos < in_len THEN end.pos + 1
       ELSE end.pos

RECURSIVE image_lines(_, _, _)
image_lines(mem, in_len, start) ==
    IF ~(start < in_len) THEN <<>>
    ELSE LET end == line_end(mem, in_len, start)
         IN <<patch_line_init(SubSeq(mem, start + 1, end), end - start, start)>>
            \o image_lines(mem, in_len, end)

\* patch_image_init_fromstr(out, in, in_len), in being the first in_len bytes
\* of mem.
patch_image_init_fromstr(mem, in_len) == image_lines(mem, in_len, 0)

\* The loop of apply_hunks that serializes the image into the output buffer.
serialize_image(out, lines) ==
    out \o Concat([k \in 1..Len(lines) |-> lines[k].content])

(***************************************************************************)
(* git_vector operations used by update_hunk (vector.c).                   *)
(***************************************************************************)
NullLine == [origin |-> "null", content |-> <<>>, content_len |-> 0,
             content_offset |-> 0]

\* git_vector_insert_null(v, idx, n): n NULL elements inserted at index idx.
git_vector_insert_null(v, idx, n) ==
    SubSeq(v, 1, idx) \o [k \in 1..n |-> NullLine] \o SubSeq(v, idx + 1, Len(v))

\* git_vector_remove_range(v, idx, n): the n elements from index idx removed.
git_vector_remove_range(v, idx, n) ==
    SubSeq(v, 1, idx) \o SubSeq(v, idx + n + 1, Len(v))

(***************************************************************************)
(* Hunk matcher and applier.                                               *)
(***************************************************************************)
\* memcmp(a, b, n) = 0 on the first n bytes.
memeq(a, b, n) == \A k \in 1..n : a[k] = b[k]

match_hunk(img, preimage, linenum) ==
    IF Len(preimage) + linenum > Len(img) THEN FALSE
    ELSE \A i \in 1..Len(preimage) :
            /\ preimage[i].content_len = img[linenum + i].content_len
            /\ memeq(preimage[i].content, img[linenum + i].content,
                     img[linenum + i].content_len)

\* A find_hunk_linenum that scans the image for the first offset that matches.
find_hunk_linenum_scan(img, preimage, linenum) ==
    LET max == Len(img)
        at == IF linenum > max THEN max ELSE linenum
        hits == {k \in 0..max : match_hunk(img, preimage, k)}
    IN IF match_hunk(img, preimage, at) \/ hits = {}
         THEN [match |-> match_hunk(img, preimage, at), out |-> at]
       ELSE [match |-> TRUE, out |-> CHOOSE k \in hits : \A j \in hits : k <= j]

\* A find_hunk_linenum that does not clamp the line number.
find_hunk_linenum_unclamped(img, preimage, linenum) ==
    [match |-> match_hunk(img, preimage, linenum), out |-> linenum]

\* A find_hunk_linenum that clamps the line number so that the preimage fits
\* in the image.
find_hunk_linenum_fit(img, preimage, linenum) ==
    LET max == IF Len(img) > Len(preimage) THEN Len(img) - Len(preimage) ELSE 0
        at == IF linenum > max THEN max ELSE linenum
    IN [match |-> match_hunk(img, preimage, at), out |-> at]

\* find_hunk_linenum: the line number is clamped to the image's length and
\* the hunk is matched there and nowhere else.
find_hunk_linenum(img, preimage, linenum) ==
    LET max == Len(img)
        at == IF linenum > max THEN max ELSE linenum
    IN [match |-> match_hunk(img, preimage, at), out |-> at]

\* An update_hunk that writes the postimage lines over the image without
\* resizing it.
update_hunk_in_place(img, linenum, preimage, postimg) ==
    [k \in 1..Len(img) |->
        IF linenum < k /\ k <= linenum + Len(postimg)
          THEN postimg[k - linenum] ELSE img[k]]

update_hunk(img, linenum, preimage, postimg) ==
    LET postlen == Len(postimg)
        prelen == Len(preimage)
        resized == IF postlen > prelen
                     THEN git_vector_insert_null(img, linenum, postlen - prelen)
                   ELSE IF prelen > postlen
                     THEN git_vector_remove_range(img, linenum, prelen - postlen)
                   ELSE img
    IN [k \in 1..Len(resized) |->
           IF linenum < k /\ k <= linenum + postlen
             THEN postimg[k - linenum] ELSE resized[k]]

\* The lines of patch->lines that a hunk names (git_array_get is NULL past
\* the end of the array).
hunk_has_all_lines(p, hunk) ==
    hunk.line_start + hunk.line_count <= Len(p.lines)

hunk_lines(p, hunk) ==
    [i \in 1..hunk.line_count |-> p.lines[hunk.line_start + i]]

IsPre(line) == line.origin \in {GIT_DIFF_LINE_CONTEXT, GIT_DIFF_LINE_DELETION}
IsPost(line) == line.origin \in {GIT_DIFF_LINE_CONTEXT, GIT_DIFF_LINE_ADDITION}

hunk_preimage(p, hunk) == SelectSeq(hunk_lines(p, hunk), IsPre)
hunk_postimage(p, hunk) == SelectSeq(hunk_lines(p, hunk), IsPost)

\* A hunk_target that takes new_start as a 0-based line number.
hunk_target_zero_based(hunk) == hunk.new_start

hunk_target(hunk) == IF hunk.new_start # 0 THEN hunk.new_start - 1 ELSE 0

\* apply_hunk(image, patch, hunk): the error returned, the message set and the
\* image afterwards.
apply_hunk(img, p, hunk) ==
    IF ~hunk_has_all_lines(p, hunk)
      THEN [error |-> GIT_EAPPLYFAIL,
            msg |-> <<"preimage does not contain line %zu",
                      IF hunk.line_start > Len(p.lines) THEN hunk.line_start
                      ELSE Len(p.lines)>>,
            image |-> img]
    ELSE LET preimage == hunk_preimage(p, hunk)
             postimg == hunk_postimage(p, hunk)
             found == find_hunk_linenum(img, preimage, hunk_target(hunk))
         IN IF ~found.match
              THEN [error |-> GIT_EAPPLYFAIL,
                    msg |-> <<"hunk at line %d did not apply", hunk.new_start>>,
                    image |-> img]
            ELSE [error |-> 0, msg |-> <<>>,
                  image |-> update_hunk(img, found.out, preimage, postimg)]

\* The git_array_foreach loop of apply_hunks from hunk number i on.
RECURSIVE apply_hunks_from(_, _, _)
apply_hunks_from(img, p, i) ==
    IF i > Len(p.hunks) THEN [error |-> 0, msg |-> <<>>, image |-> img]
    ELSE LET r == apply_hunk(img, p, p.hunks[i])
         IN IF r.error < 0 THEN r ELSE apply_hunks_from(r.image, p, i + 1)

\* apply_hunks(out, source, source_len, patch).
apply_hunks(out, mem, source_len, p) ==
    LET r == apply_hunks_from(patch_image_init_fromstr(mem, source_len), p, 1)
    IN IF r.error < 0 THEN [error |-> r.error, msg |-> r.msg, out |-> out]
       ELSE [error |-> 0, msg |-> <<>>, out |-> serialize_image(out, r.image)]

(***************************************************************************)
(* Collaborators of the binary path: zstream.c and delta.c.                *)
(***************************************************************************)
\* A deflated stream is modelled as a one-unit header "z" followed by the
\* stored bytes; anything else does not inflate.
deflate(bytes) == <<"z">> \o bytes

git_zstream_inflatebuf(data) ==
    IF data # <<>> /\ Head(data) = "z"
      THEN [error |-> 0, buf |-> Tail(data)]
    ELSE [error |-> GIT_ERROR, buf |-> <<>>]

\* A delta is two size units (the base size, the result size) followed by
\* instructions: "c", offset, length copies from the base; "i", byte inserts
\* one byte.  git_delta_apply fails when the base size or the result size
\* disagrees, a copy leaves the base or the stream is malformed.
Digits == <<"0", "1", "2", "3", "4", "5", "6", "7", "8", "9">>
IsDigit(d) == \E k \in 1..Len(Digits) : Digits[k] = d
DigitVal(d) == (CHOOSE k \in 1..Len(Digits) : Digits[k] = d) - 1
DigitOf(n) == Digits[n + 1]

RECURSIVE delta_run(_, _, _, _)
delta_run(base, delta, i, acc) ==
    IF i > Len(delta) THEN [ok |-> TRUE, data |-> acc]
    ELSE IF delta[i] = "c"
      THEN IF /\ i + 2 <= Len(delta)
              /\ IsDigit(delta[i + 1]) /\ IsDigit(delta[i + 2])
              /\ DigitVal(delta[i + 1]) + DigitVal(delta[i + 2]) <= Len(base)
             THEN delta_run(base, delta, i + 3,
                            acc \o SubSeq(base, DigitVal(delta[i + 1]) + 1,
                                          DigitVal(delta[i + 1]) + DigitVal(delta[i + 2])))
           ELSE [ok |-> FALSE, data |-> <<>>]
    ELSE IF delta[i] = "i" /\ i + 1 <= Len(delta)
      THEN delta_run(base, delta, i + 2, acc \o <<delta[i + 1]>>)
    ELSE [ok |-> FALSE, data |-> <<>>]

git_delta_apply(base, delta) ==
    IF /\ Len(delta) >= 2
       /\ IsDigit(delta[1]) /\ IsDigit(delta[2])
       /\ DigitVal(delta[1]) = Len(base)
      THEN LET r == delta_run(base, delta, 3, <<>>)
           IN IF r.ok /\ Len(r.data) = DigitVal(delta[2])
                THEN [error |-> 0, data |-> r.data]
              ELSE [error |-> GIT_ERROR, data |-> <<>>]
    ELSE [error |-> GIT_ERROR, data |-> <<>>]

(***************************************************************************)
(* Binary delta applier.                                                   *)
(***************************************************************************)
\* An apply_binary_delta that does not compare the inflated length with the
\* declared one.
apply_binary_delta_unchecked(out, src, binary_file) ==
    IF binary_file.datalen = 0
      THEN [error |-> 0, msg |-> <<>>, out |-> out \o src]
    ELSE LET inflated == git_zstream_inflatebuf(binary_file.data)
         IN IF inflated.error < 0
              THEN [error |-> inflated.error, msg |-> <<"inflate failed">>,
                    out |-> out]
            ELSE IF binary_file.type = GIT_DIFF_BINARY_DELTA
              THEN LET d == git_delta_apply(src, inflated.buf)
                   IN [error |-> d.error,
                       msg |-> IF d.error < 0 THEN <<"failed to apply delta">>
                               ELSE <<>>,
                       out |-> d.data]
            ELSE IF binary_file.type = GIT_DIFF_BINARY_LITERAL
              THEN [error |-> 0, msg |-> <<>>, out |-> inflated.buf]
            ELSE [error |-> GIT_EAPPLYFAIL,
                  msg |-> <<"unknown binary delta type">>, out |-> out]

\* apply_binary_delta(out, source, source_len, binary_file).
apply_binary_delta(out, src, binary_file) ==
    IF binary_file.datalen = 0
      THEN [error |-> 0, msg |-> <<>>, out |-> out \o src]
    ELSE LET inflated == git_zstream_inflatebuf(binary_file.data)
         IN IF inflated.error < 0
              THEN [error |-> inflated.error, msg |-> <<"inflate failed">>,
                    out |-> out]
            ELSE IF Len(inflated.buf) # binary_file.inflatedlen
              THEN [error |-> GIT_EAPPLYFAIL,
                    msg |-> <<"inflated delta does not match expected length">>,
                    out |-> <<>>]
            ELSE IF binary_file.type = GIT_DIFF_BINARY_DELTA
              THEN LET d == git_delta_apply(src, inflated.buf)
                   IN [error |-> d.error,
                       msg |-> IF d.error < 0 THEN <<"failed to apply delta">>
                               ELSE <<>>,
                       out |-> d.data]
            ELSE IF binary_file.type = GIT_DIFF_BINARY_LITERAL
              THEN [error |-> 0, msg |-> <<>>, out |-> inflated.buf]
            ELSE [error |-> GIT_EAPPLYFAIL,
                  msg |-> <<"unknown binary delta type">>, out |-> out]

\* apply_binary(out, source, source_len, patch); at done: an error disposes
\* of out.
apply_binary(out, src, p) ==
    IF ~p.binary.contains_data
      THEN [error |-> GIT_EAPPLYFAIL,
            msg |-> <<"patch does not contain binary data">>, out |-> <<>>]
    ELSE IF p.binary.old_file.datalen = 0 /\ p.binary.new_file.datalen = 0
      THEN [error |-> 0, msg |-> <<>>, out |-> out]
    ELSE LET fwd == apply_binary_delta(out, src, p.binary.new_file)
         IN IF fwd.error < 0
              THEN [error |-> fwd.error, msg |-> fwd.msg, out |-> <<>>]
            ELSE LET reverse == apply_binary_delta(<<>>, fwd.out, p.binary.old_file)
                 IN IF reverse.error < 0
                      THEN [error |-> reverse.error, msg |-> reverse.msg,
                            out |-> <<>>]
                    ELSE IF Len(src) # Len(reverse.out)
                            \/ ~memeq(src, reverse.out, Len(src))
                      THEN [error |-> GIT_EAPPLYFAIL,
                            msg |-> <<"binary patch did not apply cleanly">>,
                            out |-> <<>>]
                    ELSE [error |-> 0, msg |-> <<>>, out |-> fwd.out]

(***************************************************************************)
(* File patch driver.                                                      *)
(***************************************************************************)
\* A filename copied from new_file.path whatever the status.
patch_filename_always(p) == p.delta.new_file.path

\* The filename and mode that git_apply__patch prepares (lines 352-358).
patch_filename(p) ==
    IF p.delta.status # GIT_DELTA_DELETED THEN p.delta.new_file.path ELSE NULL

patch_mode(p) ==
    IF p.delta.status # GIT_DELTA_DELETED
      THEN (IF p.delta.new_file.mode # 0 THEN p.delta.new_file.mode
            ELSE GIT_FILEMODE_BLOB)
    ELSE 0

\* A patch_finish without the check of a removal patch's result.
patch_finish_unchecked(p, r) ==
    IF r.error # 0
      THEN [error |-> r.error, msg |-> r.msg, contents_out |-> r.out,
            filename_out |-> NULL, mode_out |-> 0]
    ELSE [error |-> 0, msg |-> <<>>, contents_out |-> r.out,
          filename_out |-> patch_filename(p), mode_out |-> patch_mode(p)]

\* The tail of git_apply__patch, from "if (error) goto done" on: given the
\* result r of the selected path, what the caller gets.
patch_finish(p, r) ==
    IF r.error # 0
      THEN [error |-> r.error, msg |-> r.msg, contents_out |-> r.out,
            filename_out |-> NULL, mode_out |-> 0]
    ELSE IF p.delta.status = GIT_DELTA_DELETED /\ Len(r.out) > 0
      THEN [error |-> GIT_EAPPLYFAIL,
            msg |-> <<"removal patch leaves file contents">>,
            contents_out |-> r.out, filename_out |-> NULL, mode_out |-> 0]
    ELSE [error |-> 0, msg |-> <<>>, contents_out |-> r.out,
          filename_out |-> patch_filename(p), mode_out |-> patch_mode(p)]

\* git_apply__patch(contents_out, filename_out, mode_out, source, source_len,
\* patch), the source being the first source_len bytes of mem.
git_apply__patch(out, mem, source_len, p) ==
    LET src == SubSeq(mem, 1, source_len)
        r == IF p.delta.flags_binary THEN apply_binary(out, src, p)
             ELSE IF Len(p.hunks) # 0 THEN apply_hunks(out, mem, source_len, p)
             ELSE [error |-> 0, msg |-> <<>>, out |-> out \o src]
    IN patch_finish(p, r)

(***************************************************************************)
(* Bounds of the inputs.                                                   *)
(***************************************************************************)
MaxSrcLines == 2     \* lines of a source buffer
MaxHunkLines == 3    \* annotated lines of a hunk
MaxStart == 3        \* largest new_start of a hunk
MaxHunks == 2        \* hunks of a patch with several hunks
MaxLen == 3          \* bytes of a buffer given to patch_image_init_fromstr

(***************************************************************************)
(* Inputs: source buffers, patch lines, hunks, patches.                    *)
(***************************************************************************)
LineA == <<"A", NL>>
LineB == <<"B", NL>>
LinePool == {LineA, LineB}

\* Source buffers of up to n lines; the last line may lack its newline.
Sources(n) ==
    {Concat(ls) : ls \in SeqsUpTo(LinePool, n)}
    \cup {Concat(ls) \o <<"A">> : ls \in SeqsUpTo(LinePool, n - 1)}

\* What may lie after a source buffer: nothing that holds a newline within
\* reach, or bytes that do.
Tails == {<<>>, <<"Z", NL>>}

PLine(origin, content) ==
    [origin |-> origin, content |-> content, content_len |-> Len(content),
     content_offset |-> 0]

Origins == {GIT_DIFF_LINE_CONTEXT, GIT_DIFF_LINE_ADDITION, GIT_DIFF_LINE_DELETION}
PatchLines == {PLine(o, c) : o \in Origins, c \in LinePool}

Hunk(new_start, line_start, line_count) ==
    [new_start |-> new_start, line_start |-> line_start, line_count |-> line_count]

ZeroPayload ==
    [type |-> GIT_DIFF_BINARY_LITERAL, data |-> <<>>, datalen |-> 0, inflatedlen |-> 0]
NoBinary ==
    [contains_data |-> FALSE, old_file |-> ZeroPayload, new_file |-> ZeroPayload]

Statuses == {GIT_DELTA_ADDED, GIT_DELTA_DELETED, GIT_DELTA_MODIFIED, GIT_DELTA_RENAMED}
\* new_file.mode: unset, or that of an executable file (0100755).
Modes == {0, 33261}

Delta(status, binary, mode) ==
    [status |-> status, flags_binary |-> binary,
     old_file |-> [path |-> "a", mode |-> GIT_FILEMODE_BLOB],
     new_file |-> [path |-> IF status = GIT_DELTA_RENAMED THEN "b" ELSE "a",
                   mode |-> mode]]

Patch(delta, lines, hunks, binary) ==
    [delta |-> delta, lines |-> lines, hunks |-> hunks, binary |-> binary]

\* Patches with one hunk over the whole line table; the hunk may name one
\* line more than the table holds.
OneHunkPatches ==
    {Patch(Delta(st, FALSE, 0), ls, <<Hunk(ns, 0, n)>>, NoBinary) :
        st \in {GIT_DELTA_MODIFIED, GIT_DELTA_DELETED},
        ns \in 0..MaxStart,
        <<ls, n>> \in {<<l, Len(l)>> : l \in SeqsUpTo(PatchLines, MaxHunkLines) \ {<<>>}}
                     \cup {<<l, Len(l) + 1>> : l \in SeqsUpTo(PatchLines, 1)}}

\* Patches with several hunks, each hunk one of a few shapes.
HunkShapes ==
    { <<PLine(GIT_DIFF_LINE_ADDITION, LineB)>>,
      <<PLine(GIT_DIFF_LINE_CONTEXT, LineA), PLine(GIT_DIFF_LINE_ADDITION, LineB)>>,
      <<PLine(GIT_DIFF_LINE_DELETION, LineA), PLine(GIT_DIFF_LINE_ADDITION, LineB)>>,
      <<PLine(GIT_DIFF_LINE_DELETION, LineB)>> }

\* The hunks that lay the shapes out one after the other in the line table.
RECURSIVE LayOut(_, _, _)
LayOut(shapes, starts, at) ==
    IF shapes = <<>> THEN <<>>
    ELSE <<Hunk(Head(starts), at, Len(Head(shapes)))>>
         \o LayOut(Tail(shapes), Tail(starts), at + Len(Head(shapes)))

ManyHunkPatches ==
    UNION {
      {Patch(Delta(GIT_DELTA_MODIFIED, FALSE, 0), Concat(shapes),
             LayOut(shapes, starts, 0), NoBinary) :
          shapes \in [1..k -> HunkShapes], starts \in [1..k -> 0..MaxStart]}
      : k \in 2..MaxHunks }

\* Patches without hunks and without the binary flag.
NoHunkPatches ==
    {Patch(Delta(st, FALSE, m), <<>>, <<>>, NoBinary) : st \in Statuses, m \in Modes}

\* Binary payloads: none, literals, deltas that append or drop a byte, and
\* payloads that are corrupt, mistyped or declare a wrong inflated length.
Payload(type, inflated, inflatedlen) ==
    [type |-> type, data |-> deflate(inflated), datalen |-> Len(deflate(inflated)),
     inflatedlen |-> inflatedlen]

DeltaAppend(n) == <<DigitOf(n), DigitOf(n + 1), "c", "0", DigitOf(n), "i", "Z">>
DeltaChop(n) == <<DigitOf(n), DigitOf(n - 1), "c", "0", DigitOf(n - 1)>>

Payloads ==
    {ZeroPayload}
    \cup {Payload(GIT_DIFF_BINARY_LITERAL, c, Len(c)) : c \in {<<>>, LineA, LineB}}
    \cup {Payload(GIT_DIFF_BINARY_LITERAL, LineA, Len(LineA) + 1)}
    \cup {Payload(GIT_DIFF_BINARY_DELTA, DeltaAppend(Len(LineA)), Len(DeltaAppend(Len(LineA))))}
    \cup {Payload(GIT_DIFF_BINARY_DELTA, DeltaChop(Len(LineA) + 1), Len(DeltaChop(Len(LineA) + 1)))}
    \cup {Payload(GIT_DIFF_BINARY_DELTA, DeltaAppend(Len(LineA)), 0)}
    \cup {Payload("unknown", LineA, Len(LineA))}
    \cup {Payload("unknown", LineA, 0)}
    \cup {[type |-> GIT_DIFF_BINARY_LITERAL, data |-> <<"?">>, datalen |-> 1,
           inflatedlen |-> 0]}

BinaryPatches ==
    {Patch(Delta(st, TRUE, 0), <<>>, <<>>,
           [contains_data |-> cd, old_file |-> o, new_file |-> n]) :
        st \in {GIT_DELTA_MODIFIED, GIT_DELTA_DELETED}, cd \in BOOLEAN,
        o \in Payloads, n \in Payloads}

\* The sources and hunks of the end-to-end scenarios, at every new_start.
LineC == <<"C", NL>>
LineX == <<"X", NL>>
LineB2 == <<"B", "2", NL>>

EditB ==
    <<PLine(GIT_DIFF_LINE_CONTEXT, LineA), PLine(GIT_DIFF_LINE_DELETION, LineB),
      PLine(GIT_DIFF_LINE_ADDITION, LineB2), PLine(GIT_DIFF_LINE_CONTEXT, LineC)>>
AppendB ==
    <<PLine(GIT_DIFF_LINE_CONTEXT, LineA), PLine(GIT_DIFF_LINE_ADDITION, LineB)>>
RemoveA == <<PLine(GIT_DIFF_LINE_DELETION, LineA)>>

ScenarioSources ==
    {LineA \o LineB \o LineC, LineA \o LineX \o LineC, LineA, LineA \o LineB}

ScenarioPatches ==
    {Patch(Delta(st, FALSE, 0), ls, <<Hunk(ns, 0, Len(ls))>>, NoBinary) :
        st \in {GIT_DELTA_MODIFIED, GIT_DELTA_DELETED}, ns \in 0..MaxStart,
        ls \in {EditB, AppendB, RemoveA}}

Bytes == {"A", "B", NL}

(***************************************************************************)
(* git_apply__patch as a sequence of steps.                                *)
(***************************************************************************)
EmptyRepo ==
    [index |-> <<>>, index_file |-> <<>>, workdir |-> <<>>, tree |-> <<>>, odb |-> {}]

BatchIdle ==
    /\ repo = EmptyRepo
    /\ diff = <<>>
    /\ opts = [location |-> "none"]
    /\ postimage = <<>>
    /\ delta_i = 0
    /\ calls = <<>>
    /\ out_index = NULL
    /\ before = EmptyRepo

PatchEntry(src, tl, p) ==
    /\ pc = "call"
    /\ source = src
    /\ tail = tl
    /\ patch = p
    /\ image = <<>>
    /\ hunk_i = 0
    /\ contents_out = <<>>
    /\ filename_out = NULL
    /\ mode_out = 0
    /\ error = 0
    /\ errmsg = <<>>
    /\ BatchIdle

\* memchr stops at the first newline, so the bytes after a buffer are read
\* only when the buffer does not end in a newline.
TailsFor(src) ==
    IF src # <<>> /\ src[Len(src)] # NL THEN Tails ELSE {<<>>}

InitOneHunk ==
    \E src \in Sources(MaxSrcLines), p \in OneHunkPatches :
        \E tl \in TailsFor(src) : PatchEntry(src, tl, p)

InitHunks ==
    \E src \in Sources(MaxSrcLines), p \in ManyHunkPatches :
        \E tl \in TailsFor(src) : PatchEntry(src, tl, p)

InitFile ==
    \E src \in Sources(MaxSrcLines), p \in NoHunkPatches \cup BinaryPatches :
        \E tl \in TailsFor(src) : PatchEntry(src, tl, p)

InitScenario ==
    \E src \in ScenarioSources, p \in ScenarioPatches : PatchEntry(src, <<>>, p)

\* A buffer of any bytes for patch_image_init_fromstr, followed in memory by
\* any bytes; apply_hunks then serializes the image it built.
InitImage ==
    \E src \in SeqsUpTo(Bytes, MaxLen), tl \in SeqsUpTo(Bytes, MaxLen - 1) :
        PatchEntry(src, tl, Patch(Delta(GIT_DELTA_MODIFIED, FALSE, 0), <<>>, <<>>, NoBinary))

\* Lines 349-365: the outputs are reset and the path is selected.  The binary
\* path and the verbatim copy run to their end; the text path builds the
\* image and enters the loop over the hunks.
Call ==
    /\ pc = "call"
    /\ filename_out' = NULL
    /\ mode_out' = 0
    /\ IF patch.delta.flags_binary
         THEN LET r == apply_binary(contents_out, source, patch)
              IN /\ contents_out' = r.out
                 /\ error' = r.error
                 /\ errmsg' = r.msg
                 /\ pc' = "finish"
                 /\ UNCHANGED <<image, hunk_i>>
       ELSE IF Len(patch.hunks) # 0
         THEN /\ image' = patch_image_init_fromstr(source \o tail, Len(source))
              /\ hunk_i' = 1
              /\ pc' = "hunks"
              /\ UNCHANGED <<contents_out, error, errmsg>>
       ELSE /\ contents_out' = contents_out \o source
            /\ pc' = "finish"
            /\ UNCHANGED <<image, hunk_i, error, errmsg>>
    /\ UNCHANGED <<source, tail, patch, bvars>>

\* A loop that locates each hunk in the image as built from the source.
HunkStep_stale ==
    /\ pc = "hunks"
    /\ hunk_i <= Len(patch.hunks)
    /\ LET h == patch.hunks[hunk_i]
           img0 == patch_image_init_fromstr(source \o tail, Len(source))
           found == find_hunk_linenum(img0, hunk_preimage(patch, h), hunk_target(h))
       IN /\ image' = IF found.match
                           /\ found.out + Len(hunk_preimage(patch, h)) <= Len(image)
                        THEN update_hunk(image, found.out, hunk_preimage(patch, h),
                                         hunk_postimage(patch, h))
                      ELSE image
          /\ error' = IF found.match THEN 0 ELSE GIT_EAPPLYFAIL
          /\ errmsg' = IF found.match THEN <<>>
                       ELSE <<"hunk at line %d did not apply", h.new_start>>
          /\ IF ~found.match
               THEN pc' = "finish" /\ hunk_i' = hunk_i
             ELSE pc' = "hunks" /\ hunk_i' = hunk_i + 1
    /\ UNCHANGED <<source, tail, patch, contents_out, filename_out, mode_out, bvars>>

\* One iteration of git_array_foreach(patch->hunks, i, hunk) in apply_hunks.
HunkStep ==
    /\ pc = "hunks"
    /\ hunk_i <= Len(patch.hunks)
    /\ LET r == apply_hunk(image, patch, patch.hunks[hunk_i])
       IN /\ image' = r.image
          /\ error' = r.error
          /\ errmsg' = r.msg
          /\ IF r.error < 0
               THEN pc' = "finish" /\ hunk_i' = hunk_i
             ELSE pc' = "hunks" /\ hunk_i' = hunk_i + 1
    /\ UNCHANGED <<source, tail, patch, contents_out, filename_out, mode_out, bvars>>

\* Lines 237-238: after the last hunk the image is written to the output.
Serialize ==
    /\ pc = "hunks"
    /\ hunk_i > Len(patch.hunks)
    /\ contents_out' = serialize_image(contents_out, image)
    /\ pc' = "finish"
    /\ UNCHANGED <<source, tail, patch, image, hunk_i, filename_out, mode_out,
                   error, errmsg, bvars>>

\* Lines 367-383 (and patch_image_free at the end of apply_hunks).
Finish ==
    /\ pc = "finish"
    /\ LET r == patch_finish(patch, [error |-> error, msg |-> errmsg,
                                     out |-> contents_out])
       IN /\ error' = r.error
          /\ errmsg' = r.msg
          /\ contents_out' = r.contents_out
          /\ filename_out' = r.filename_out
          /\ mode_out' = r.mode_out
    /\ image' = <<>>
    /\ pc' = "done"
    /\ UNCHANGED <<source, tail, patch, hunk_i, bvars>>

\* patch_image_init_fromstr on its own (lines 50-79, called at line 229).
ImageInit ==
    /\ pc = "call"
    /\ image' = patch_image_init_fromstr(source \o tail, Len(source))
    /\ hunk_i' = 1
    /\ pc' = "hunks"
    /\ UNCHANGED <<source, tail, patch, contents_out, filename_out, mode_out,
                   error, errmsg, bvars>>

PatchNext == Call \/ HunkStep \/ Serialize \/ Finish

Init == InitOneHunk \/ InitFile \/ InitScenario

\* git_apply__patch on one source and one patch.
Spec == Init /\ [][PatchNext]_vars

\* git_apply__patch on patches with several hunks.
SpecHunks == InitHunks /\ [][PatchNext]_vars

\* The line image built from a buffer and serialized again.
SpecImage == InitImage /\ [][ImageInit \/ Serialize \/ Finish]_vars

\* The steps compute what git_apply__patch computes (under Spec and
\* SpecHunks, which enter through Call).
StepsAgree ==
    pc = "done" =>
        LET r == git_apply__patch(<<>>, source \o tail, Len(source), patch)
        IN /\ r.error = error
           /\ r.msg = errmsg
           /\ r.contents_out = contents_out
           /\ r.filename_out = filename_out
           /\ r.mode_out = mode_out

(***************************************************************************)
(* Collaborators of the batch: index.c, reader.c, blob.c, checkout.c.      *)
(* An index is a mapping from paths to entries {mode, id}; a blob's id is  *)
(* its contents (content addressing).                                      *)
(***************************************************************************)
git_index_add(index, entry) ==
    [q \in DOMAIN index \cup {entry.path} |->
        IF q = entry.path THEN [mode |-> entry.mode, id |-> entry.id] ELSE index[q]]

git_index_remove(index, path) ==
    [q \in DOMAIN index \ {path} |-> index[q]]

\* The paths of the model, in the order an index sorts them.
PathOrder == <<"a", "b">>
Paths == {PathOrder[k] : k \in 1..Len(PathOrder)}

\* The entries of an index in the order of git_index_get_byindex (by path).
index_entries(index) ==
    LET held == SelectSeq(PathOrder, LAMBDA q : q \in DOMAIN index)
    IN [k \in 1..Len(held) |->
          [path |-> held[k], mode |-> index[held[k]].mode, id |-> index[held[k]].id]]

\* git_reader_read(out, reader, path).
git_reader_read(reader, path) ==
    IF path \in DOMAIN reader THEN [error |-> 0, buf |-> reader[path]]
    ELSE [error |-> GIT_ENOTFOUND, buf |-> <<>>]

\* What a reader yields for every path it finds: the workdir's files, or the
\* blobs of an index or tree.
git_reader_for_workdir(r) == r.workdir
git_reader_for_index(r) == [q \in DOMAIN r.index |-> r.index[q].id]
git_reader_for_tree(tree) == [q \in DOMAIN tree |-> tree[q].id]

GIT_CHECKOUT_SAFE == "SAFE"
GIT_CHECKOUT_DISABLE_PATHSPEC_MATCH == "DISABLE_PATHSPEC_MATCH"
GIT_CHECKOUT_DONT_UPDATE_INDEX == "DONT_UPDATE_INDEX"

\* git_checkout_index restricted to paths: every path takes the contents the
\* given index holds for it, or is removed when the index lacks it; the
\* repository's index follows unless the strategy says DONT_UPDATE_INDEX.
git_checkout_index(r, index, strategy, paths) ==
    LET wd == [q \in (DOMAIN r.workdir \ paths) \cup (DOMAIN index \cap paths) |->
                 IF q \in paths THEN index[q].id ELSE r.workdir[q]]
        ix == [q \in (DOMAIN r.index \ paths) \cup (DOMAIN index \cap paths) |->
                 IF q \in paths THEN index[q] ELSE r.index[q]]
    IN IF GIT_CHECKOUT_DONT_UPDATE_INDEX \in strategy
         THEN [r EXCEPT !.workdir = wd]
       ELSE [r EXCEPT !.workdir = wd, !.index = ix, !.index_file = ix]

(***************************************************************************)
(* Batch orchestrator.                                                     *)
(***************************************************************************)
\* apply_one, lines 422-434: the result r of git_apply__patch is stored as a
\* blob and entered in the postimage index under the patch's filename.
apply_one_store(odb, post, r) ==
    IF r.error < 0
      THEN [error |-> r.error, postimage |-> post, odb |-> odb]
    ELSE [error |-> 0,
          postimage |-> git_index_add(post,
                           [path |-> r.filename_out, mode |-> r.mode_out,
                            id |-> r.contents_out]),
          odb |-> odb \cup {r.contents_out}]

\* apply_one, lines 410-420: the preimage is read unless the delta adds the
\* file; a file that is not found fails the application.
apply_one_read(reader, p) ==
    IF p.delta.status # GIT_DELTA_ADDED
      THEN git_reader_read(reader, p.delta.old_file.path)
    ELSE [error |-> 0, buf |-> <<>>]

\* An apply_one that hands on the reader's error as it is.
apply_one_patch_bare(odb, post, p, read) ==
    IF read.error < 0
      THEN [error |-> read.error, postimage |-> post, odb |-> odb]
    ELSE apply_one_store(odb, post,
                         git_apply__patch(<<>>, read.buf, Len(read.buf), p))

apply_one_patch(odb, post, p, read) ==
    IF read.error < 0
      THEN [error |-> IF read.error = GIT_ENOTFOUND THEN GIT_EAPPLYFAIL
                      ELSE read.error,
            postimage |-> post, odb |-> odb]
    ELSE apply_one_store(odb, post,
                         git_apply__patch(<<>>, read.buf, Len(read.buf), p))

\* An apply_one that reads and applies a deleted delta like any other.
apply_one_applies_deleted(odb, reader, post, p) ==
    apply_one_patch(odb, post, p, apply_one_read(reader, p))

\* apply_one(repo, preimage_reader, postimage, diff, i): the error, the
\* postimage index and the object store afterwards.
apply_one(odb, reader, post, p) ==
    IF p.delta.status = GIT_DELTA_DELETED
      THEN [error |-> 0, postimage |-> post, odb |-> odb]
    ELSE apply_one_patch(odb, post, p, apply_one_read(reader, p))

\* The paths that git_apply__to_workdir hands to checkout.
checkout_paths(d) ==
    {d[k].delta.old_file.path : k \in 1..Len(d)}
    \cup {d[k].delta.new_file.path : k \in 1..Len(d)}

\* A checkout strategy that is the same at every location.
checkout_strategy_plain(location) ==
    {GIT_CHECKOUT_SAFE, GIT_CHECKOUT_DISABLE_PATHSPEC_MATCH}

\* The checkout strategy that git_apply__to_workdir builds.
checkout_strategy(location) ==
    {GIT_CHECKOUT_SAFE, GIT_CHECKOUT_DISABLE_PATHSPEC_MATCH}
    \cup (IF location = "workdir" THEN {GIT_CHECKOUT_DONT_UPDATE_INDEX} ELSE {})

\* A git_apply__to_index that adds the postimage entries before it removes
\* the old paths.
to_index_ops_adds_first(d, post) ==
    LET gone == SelectSeq(d, LAMBDA o : o.delta.status = GIT_DELTA_DELETED
                                       \/ o.delta.status = GIT_DELTA_RENAMED)
    IN [k \in 1..Len(index_entries(post)) |->
          [fn |-> "git_index_add", path |-> index_entries(post)[k].path,
           entry |-> index_entries(post)[k]]]
    \o [k \in 1..Len(gone) |->
          [fn |-> "git_index_remove", path |-> gone[k].delta.old_file.path]]
    \o <<[fn |-> "git_index_write"]>>

\* The calls that git_apply__to_index makes on the repository's index, in
\* order: the removals, the additions, the write.
to_index_ops(d, post) ==
    LET gone == SelectSeq(d, LAMBDA o : o.delta.status = GIT_DELTA_DELETED
                                       \/ o.delta.status = GIT_DELTA_RENAMED)
    IN [k \in 1..Len(gone) |->
          [fn |-> "git_index_remove", path |-> gone[k].delta.old_file.path]]
    \o [k \in 1..Len(index_entries(post)) |->
          [fn |-> "git_index_add", path |-> index_entries(post)[k].path,
           entry |-> index_entries(post)[k]]]
    \o <<[fn |-> "git_index_write"]>>

\* The repository after the first n of these calls.
RECURSIVE after_index_ops(_, _, _)
after_index_ops(r, ops, n) ==
    IF n = 0 THEN r
    ELSE LET prev == after_index_ops(r, ops, n - 1)
             o == ops[n]
         IN IF o.fn = "git_index_remove"
              THEN [prev EXCEPT !.index = git_index_remove(prev.index, o.path)]
            ELSE IF o.fn = "git_index_add"
              THEN [prev EXCEPT !.index = git_index_add(prev.index, o.entry)]
            ELSE [prev EXCEPT !.index_file = prev.index]

(***************************************************************************)
(* Inputs of the batch.                                                    *)
(***************************************************************************)
MaxDeltas == 2       \* deltas of a diff

Blobs == {LineA, LineB}
Entries == [mode : {GIT_FILEMODE_BLOB}, id : Blobs]
Indexes == UNION {[S -> Entries] : S \in SUBSET Paths}
Workdirs == UNION {[S -> Blobs] : S \in SUBSET Paths}

FileDelta(status, old, new) ==
    [status |-> status, flags_binary |-> FALSE,
     old_file |-> [path |-> old, mode |-> GIT_FILEMODE_BLOB],
     new_file |-> [path |-> new, mode |-> GIT_FILEMODE_BLOB]]

\* Per path: a patch that adds the file with the line "B", one that removes
\* the file holding the line "A", one that turns the line "A" into "B", a
\* rename to the other path without hunks, and a rename to the other path
\* that turns the line "A" into "B".
BatchPatches ==
    UNION {
      { Patch(FileDelta(GIT_DELTA_ADDED, q, q),
              <<PLine(GIT_DIFF_LINE_ADDITION, LineB)>>, <<Hunk(1, 0, 1)>>, NoBinary),
        Patch(FileDelta(GIT_DELTA_DELETED, q, q),
              <<PLine(GIT_DIFF_LINE_DELETION, LineA)>>, <<Hunk(0, 0, 1)>>, NoBinary),
        Patch(FileDelta(GIT_DELTA_MODIFIED, q, q),
              <<PLine(GIT_DIFF_LINE_DELETION, LineA), PLine(GIT_DIFF_LINE_ADDITION, LineB)>>,
              <<Hunk(1, 0, 2)>>, NoBinary) }
      \cup { Patch(FileDelta(GIT_DELTA_RENAMED, q, o), <<>>, <<>>, NoBinary) :
               o \in Paths \ {q} }
      \cup { Patch(FileDelta(GIT_DELTA_RENAMED, q, o),
                    <<PLine(GIT_DIFF_LINE_DELETION, LineA),
                      PLine(GIT_DIFF_LINE_ADDITION, LineB)>>,
                    <<Hunk(1, 0, 2)>>, NoBinary) :
               o \in Paths \ {q} }
      : q \in Paths }

Diffs == UNION {[1..k -> BatchPatches] : k \in 1..MaxDeltas}

Locations == {"workdir", "index", "both"}

PatchIdle ==
    /\ source = <<>>
    /\ tail = <<>>
    /\ patch = Patch(Delta(GIT_DELTA_MODIFIED, FALSE, 0), <<>>, <<>>, NoBinary)
    /\ image = <<>>
    /\ hunk_i = 0
    /\ contents_out = <<>>
    /\ filename_out = NULL
    /\ mode_out = 0
    /\ errmsg = <<>>

BatchEntry(entry, r, d, location) ==
    /\ pc = entry
    /\ repo = r
    /\ before = r
    /\ diff = d
    /\ opts = [location |-> location]
    /\ postimage = <<>>
    /\ delta_i = 0
    /\ calls = <<>>
    /\ out_index = NULL
    /\ error = 0
    /\ PatchIdle

Odb(ix) == {ix[q].id : q \in DOMAIN ix}

InitApply ==
    \E ix \in Indexes, wd \in Workdirs, d \in Diffs, location \in Locations :
        BatchEntry("git_apply",
                   [index |-> ix, index_file |-> ix, workdir |-> wd, tree |-> <<>>,
                    odb |-> Odb(ix)],
                   d, location)

InitApplyTree ==
    \E ix \in Indexes, tree \in Indexes, d \in Diffs :
        BatchEntry("git_apply_tree",
                   [index |-> ix, index_file |-> ix, workdir |-> <<>>, tree |-> tree,
                    odb |-> Odb(ix) \cup Odb(tree)],
                   d, "none")

(***************************************************************************)
(* git_apply and git_apply_tree as sequences of steps.                     *)
(***************************************************************************)
preimage_reader ==
    IF opts.location = "none" THEN git_reader_for_tree(repo.tree)
    ELSE IF opts.location = "workdir" THEN git_reader_for_workdir(repo)
    ELSE git_reader_for_index(repo)

\* git_apply, lines 629-644: the reader is selected and the postimage index
\* is created empty.
GitApplyBegin ==
    /\ pc = "git_apply"
    /\ postimage' = <<>>
    /\ delta_i' = 1
    /\ pc' = "apply_pass"
    /\ UNCHANGED <<patch_locals, repo, diff, opts, calls, out_index, before>>

\* git_apply_tree, lines 459-482: the postimage index is read from the tree
\* and the old path of every delta is removed from it.
RECURSIVE remove_old_paths(_, _, _)
remove_old_paths(index, d, n) ==
    IF n = 0 THEN index
    ELSE git_index_remove(remove_old_paths(index, d, n - 1),
                          d[n].delta.old_file.path)

GitApplyTreeBegin ==
    /\ pc = "git_apply_tree"
    /\ out_index' = NULL
    /\ postimage' = remove_old_paths(repo.tree, diff, Len(diff))
    /\ delta_i' = 1
    /\ pc' = "tree_pass"
    /\ UNCHANGED <<patch_locals, repo, diff, opts, calls, before>>

\* An apply pass that goes on to the next delta after a failed apply_one.
ApplyOne_goes_on ==
    /\ pc \in {"apply_pass", "tree_pass"}
    /\ delta_i <= Len(diff)
    /\ \E r \in {apply_one(repo.odb, preimage_reader, postimage, diff[delta_i])} :
          /\ repo' = [repo EXCEPT !.odb = r.odb]
          /\ postimage' = r.postimage
          /\ error' = IF r.error < 0 THEN r.error ELSE error
          /\ delta_i' = delta_i + 1
          /\ pc' = pc
          /\ out_index' = out_index
    /\ UNCHANGED <<source, tail, patch, image, hunk_i, contents_out,
                   filename_out, mode_out, errmsg, diff, opts, calls, before>>

\* An apply pass that removes a delta's old path from the postimage index
\* just before it applies that delta.
ApplyOne_removes_old ==
    /\ pc \in {"apply_pass", "tree_pass"}
    /\ delta_i <= Len(diff)
    /\ \E r \in {apply_one(repo.odb, preimage_reader,
                           git_index_remove(postimage,
                                            diff[delta_i].delta.old_file.path),
                           diff[delta_i])} :
          /\ repo' = [repo EXCEPT !.odb = r.odb]
          /\ error' = r.error
          /\ IF r.error < 0
               THEN /\ postimage' = <<>>
                    /\ delta_i' = delta_i
                    /\ pc' = "returned"
             ELSE /\ postimage' = r.postimage
                  /\ delta_i' = delta_i + 1
                  /\ pc' = pc
          /\ out_index' = out_index
    /\ UNCHANGED <<source, tail, patch, image, hunk_i, contents_out,
                   filename_out, mode_out, errmsg, diff, opts, calls, before>>

\* One iteration of the apply pass (lines 646-651 and 484-487): apply_one on
\* the next delta; its failure ends the call (goto done).
ApplyOne ==
    /\ pc \in {"apply_pass", "tree_pass"}
    /\ delta_i <= Len(diff)
    /\ \E r \in {apply_one(repo.odb, preimage_reader, postimage, diff[delta_i])} :
          /\ repo' = [repo EXCEPT !.odb = r.odb]
          /\ error' = r.error
          /\ IF r.error < 0
               THEN /\ postimage' = <<>>
                    /\ delta_i' = delta_i
                    /\ pc' = "returned"
             ELSE /\ postimage' = r.postimage
                  /\ delta_i' = delta_i + 1
                  /\ pc' = pc
          /\ out_index' = out_index
    /\ UNCHANGED <<source, tail, patch, image, hunk_i, contents_out,
                   filename_out, mode_out, errmsg, diff, opts, calls, before>>

\* git_apply_tree, lines 489-497: the postimage index is handed out.
GitApplyTreeEnd ==
    /\ pc = "tree_pass"
    /\ delta_i > Len(diff)
    /\ out_index' = postimage
    /\ pc' = "returned"
    /\ UNCHANGED <<patch_locals, repo, diff, opts, postimage, delta_i, calls, before>>

\* git_apply__to_index (line 654): the calls on the repository's index are
\* made in order until one of them fails; fail = 0 when none does.
GitApplyToIndex ==
    /\ pc = "apply_pass"
    /\ delta_i > Len(diff)
    /\ opts.location = "index"
    /\ LET ops == to_index_ops(diff, postimage)
       IN \E fail \in 0..Len(ops) :
            LET done == IF fail = 0 THEN Len(ops) ELSE fail - 1
            IN /\ repo' = after_index_ops(repo, ops, done)
               /\ calls' = calls \o SubSeq(ops, 1, IF fail = 0 THEN Len(ops) ELSE fail)
               /\ error' = IF fail = 0 THEN 0 ELSE GIT_ERROR
    /\ postimage' = <<>>
    /\ pc' = "returned"
    /\ UNCHANGED <<source, tail, patch, image, hunk_i, contents_out,
                   filename_out, mode_out, errmsg, diff, opts, delta_i,
                   out_index, before>>

\* git_apply__to_workdir (line 656): checkout of the postimage index limited
\* to the paths of the diff; checkout either succeeds or fails as a whole.
GitApplyToWorkdir ==
    /\ pc = "apply_pass"
    /\ delta_i > Len(diff)
    /\ opts.location # "index"
    /\ \E ok \in BOOLEAN :
         /\ repo' = IF ok THEN git_checkout_index(repo, postimage,
                                   checkout_strategy(opts.location),
                                   checkout_paths(diff))
                    ELSE repo
         /\ error' = IF ok THEN 0 ELSE GIT_ERROR
    /\ calls' = Append(calls, [fn |-> "git_checkout_index",
                               strategy |-> checkout_strategy(opts.location),
                               paths |-> checkout_paths(diff)])
    /\ postimage' = <<>>
    /\ pc' = "returned"
    /\ UNCHANGED <<source, tail, patch, image, hunk_i, contents_out,
                   filename_out, mode_out, errmsg, diff, opts, delta_i,
                   out_index, before>>

BatchNext ==
    \/ GitApplyBegin
    \/ GitApplyTreeBegin
    \/ ApplyOne
    \/ GitApplyTreeEnd
    \/ GitApplyToIndex
    \/ GitApplyToWorkdir

\* git_apply and git_apply_tree on one repository and one diff.
SpecBatch == (InitApply \/ InitApplyTree) /\ [][BatchNext]_vars

(***************************************************************************)
(* C3.  Batch atomicity: if apply_one fails for a delta of a batch,        *)
(* git_apply returns that error without calling git_apply__to_index or     *)
(* git_apply__to_workdir, so the repository's index, its index file and    *)
(* the working directory are as before (only blobs already written may     *)
(* remain); git_apply_tree in the same situation returns no index.         *)
(***************************************************************************)
BeforeReader ==
    IF opts.location = "none" THEN git_reader_for_tree(before.tree)
    ELSE IF opts.location = "workdir" THEN git_reader_for_workdir(before)
    ELSE git_reader_for_index(before)

\* apply_one on the first n deltas in declared order, up to the first one
\* that fails.
RECURSIVE ApplyPass(_)
ApplyPass(n) ==
    IF n = 0
      THEN [error |-> 0, odb |-> before.odb,
            postimage |-> IF opts.location = "none"
                            THEN remove_old_paths(before.tree, diff, Len(diff))
                          ELSE <<>>]
    ELSE LET prev == ApplyPass(n - 1)
         IN IF prev.error < 0 THEN prev
            ELSE apply_one(prev.odb, BeforeReader, prev.postimage, diff[n])

ApplyPassFailed == pc = "returned" /\ ApplyPass(Len(diff)).error < 0

C3_BatchAtomicity ==
    ApplyPassFailed =>
        /\ error = ApplyPass(Len(diff)).error
        /\ calls = <<>>
        /\ repo.index = before.index
        /\ repo.index_file = before.index_file
        /\ repo.workdir = before.workdir
        /\ before.odb \subseteq repo.odb
        /\ out_index = NULL

\* The second delta of a batch failed after the first one had been applied
\* and its blob written.
C3_Witness ==
    /\ ApplyPassFailed
    /\ delta_i = 2
    /\ error < 0
    /\ repo.odb # before.odb
    /\ calls = <<>>
    /\ repo.index = before.index
    /\ repo.workdir = before.workdir

(***************************************************************************)
(* C8.  A failure at any step of git_apply, a failure inside the commit    *)
(* step included, leaves no partial commit: the repository's index holds   *)
(* exactly the entries it held before the call.                            *)
(***************************************************************************)
C8_NoPartialCommit ==
    (pc = "returned" /\ opts.location # "none" /\ error < 0) =>
        repo.index = before.index

(***************************************************************************)
(* What the specification says, stated on its own terms.                   *)
(***************************************************************************)
PreimageSeq(p, h) ==
    SelectSeq(hunk_lines(p, h), LAMBDA l : l.origin # GIT_DIFF_LINE_ADDITION)
PostimageSeq(p, h) ==
    SelectSeq(hunk_lines(p, h), LAMBDA l : l.origin # GIT_DIFF_LINE_DELETION)

Target(h, img) == Min(IF h.new_start = 0 THEN 0 ELSE h.new_start - 1, Len(img))

MatchesAt(img, pre, at) ==
    /\ at + Len(pre) <= Len(img)
    /\ \A i \in 1..Len(pre) : img[at + i].content = pre[i].content

Splice(img, at, remove_n, insert_lines) ==
    SubSeq(img, 1, at) \o insert_lines \o SubSeq(img, at + remove_n + 1, Len(img))

ImageBytes(img) == Concat([k \in 1..Len(img) |-> img[k].content])

DidNotApply(h) == <<"hunk at line %d did not apply", h.new_start>>

\* The first n hunks of p applied in declared order, each at its stated
\* location in the image the earlier ones left.
RECURSIVE SpliceFold(_, _, _)
SpliceFold(img, p, n) ==
    IF n = 0 THEN [ok |-> TRUE, img |-> img]
    ELSE LET prev == SpliceFold(img, p, n - 1)
             h == p.hunks[n]
             at == Target(h, prev.img)
         IN IF ~prev.ok THEN prev
            ELSE IF ~MatchesAt(prev.img, PreimageSeq(p, h), at)
              THEN [ok |-> FALSE, img |-> prev.img]
            ELSE [ok |-> TRUE,
                  img |-> Splice(prev.img, at, Len(PreimageSeq(p, h)),
                                 PostimageSeq(p, h))]

(***************************************************************************)
(* C1.  apply_hunk applies a hunk at its stated location only: with        *)
(* target = min(new_start = 0 ? 0 : new_start - 1, len(image)), a hunk     *)
(* whose lines are all in the line table succeeds iff                      *)
(* target + len(preimage_seq) <= len(image) and every image line target+i  *)
(* equals preimage_seq[i] byte for byte; otherwise it fails with "hunk at  *)
(* line <new_start> did not apply" and leaves the image as it was, even    *)
(* when the preimage sequence occurs at another offset.                    *)
(***************************************************************************)
C1_StatedLocationOnly ==
    [][(pc = "hunks" /\ hunk_i <= Len(patch.hunks)) =>
        LET h == patch.hunks[hunk_i]
        IN hunk_has_all_lines(patch, h) =>
            IF MatchesAt(image, PreimageSeq(patch, h), Target(h, image))
              THEN error' = 0 /\ pc' = "hunks" /\ hunk_i' = hunk_i + 1
            ELSE /\ error' = GIT_EAPPLYFAIL
                 /\ errmsg' = DidNotApply(h)
                 /\ pc' = "finish"
                 /\ image' = image]_vars

\* A hunk was refused although its non-empty preimage sequence occurs at
\* another offset of the image.
C1_Witness ==
    /\ pc = "finish"
    /\ Len(patch.hunks) # 0
    /\ error = GIT_EAPPLYFAIL
    /\ errmsg = DidNotApply(patch.hunks[hunk_i])
    /\ PreimageSeq(patch, patch.hunks[hunk_i]) # <<>>
    /\ \E off \in 0..Len(image) :
          /\ off # Target(patch.hunks[hunk_i], image)
          /\ MatchesAt(image, PreimageSeq(patch, patch.hunks[hunk_i]), off)

(***************************************************************************)
(* C2.  apply_hunks applies the hunks in declared order, each hunk's       *)
(* new_start being matched against the image as already modified by the    *)
(* earlier hunks: inside the loop the image is the composition of the      *)
(* splices of the hunks applied so far, the patch applies iff every hunk   *)
(* matches the image the earlier ones left, and the output is the          *)
(* serialized composition of the splices in that order.                    *)
(***************************************************************************)
C2_DeclaredOrder ==
    LET img0 == patch_image_init_fromstr(source \o tail, Len(source))
    IN /\ pc = "hunks" =>
            LET f == SpliceFold(img0, patch, hunk_i - 1)
            IN f.ok /\ image = f.img
       /\ pc = "done" =>
            LET f == SpliceFold(img0, patch, Len(patch.hunks))
            IN /\ (error = 0) <=> f.ok
               /\ f.ok => contents_out = ImageBytes(f.img)

\* A patch applied cleanly whose first hunk adds lines and whose second hunk
\* edits a line behind them, at a line number that does not match in the
\* image as built from the source.
C2_Witness ==
    /\ pc = "done"
    /\ error = 0
    /\ Len(patch.hunks) >= 2
    /\ LET h1 == patch.hunks[1]
           h2 == patch.hunks[2]
           img0 == patch_image_init_fromstr(source \o tail, Len(source))
       IN /\ Len(PostimageSeq(patch, h1)) > Len(PreimageSeq(patch, h1))
          /\ \E l \in 1..h2.line_count :
                hunk_lines(patch, h2)[l].origin = GIT_DIFF_LINE_DELETION
          /\ \E l \in 1..h2.line_count :
                hunk_lines(patch, h2)[l].origin = GIT_DIFF_LINE_ADDITION
          /\ h2.new_start - 1 >= Target(h1, img0) + Len(PostimageSeq(patch, h1))
          /\ ~MatchesAt(img0, PreimageSeq(patch, h2), Target(h2, img0))

(***************************************************************************)
(* C4.  Round trip of the line image: for every buffer B, whatever bytes   *)
(* lie in memory after it, the lines built from B cover only bytes of B,   *)
(* each ends at the first newline inclusive or at the end of B, their      *)
(* offsets partition B, and their concatenation in order is B.             *)
(***************************************************************************)
C4_RoundTrip ==
    /\ pc = "hunks" =>
          /\ ImageBytes(image) = source
          /\ \A k \in 1..Len(image) :
                LET l == image[k]
                IN /\ l.content_len > 0
                   /\ l.content_offset + l.content_len <= Len(source)
                   /\ l.content = SubSeq(source, l.content_offset + 1,
                                         l.content_offset + l.content_len)
                   /\ l.content_offset =
                        (IF k = 1 THEN 0
                         ELSE image[k - 1].content_offset + image[k - 1].content_len)
                   /\ \A j \in 1..(l.content_len - 1) : l.content[j] # NL
                   /\ \/ l.content[l.content_len] = NL
                      \/ l.content_offset + l.content_len = Len(source)
    /\ pc \in {"finish", "done"} => contents_out = source

(***************************************************************************)
(* C5.  Identity: for a patch without hunks and without the binary flag,   *)
(* git_apply__patch returns the source bytes unchanged under               *)
(* new_file.path when the status is not deleted; when the status is        *)
(* deleted it succeeds (with a null path) only on an empty source and      *)
(* otherwise fails with "removal patch leaves file contents".              *)
(***************************************************************************)
IsPlain(p) == ~p.delta.flags_binary /\ Len(p.hunks) = 0

C5_Identity ==
    (pc = "done" /\ IsPlain(patch)) =>
        IF patch.delta.status # GIT_DELTA_DELETED
          THEN /\ error = 0
               /\ contents_out = source
               /\ filename_out = patch.delta.new_file.path
        ELSE IF source = <<>>
          THEN error = 0 /\ contents_out = <<>> /\ filename_out = NULL
        ELSE /\ error = GIT_EAPPLYFAIL
             /\ errmsg = <<"removal patch leaves file contents">>

\* A rename-only delta returned a non-empty source under the new path.
C5_Witness ==
    /\ pc = "done"
    /\ IsPlain(patch)
    /\ patch.delta.status = GIT_DELTA_RENAMED
    /\ source # <<>>
    /\ error = 0
    /\ contents_out = source
    /\ filename_out = "b"

\* C5 as first stated: whatever the delta status, the call succeeds and
\* returns the source bytes.
C5_Original ==
    (pc = "done" /\ IsPlain(patch)) => (error = 0 /\ contents_out = source)

(***************************************************************************)
(* C6.  Binary round trip: every successful binary application returns an  *)
(* output to which the old_file payload applies and gives back the source  *)
(* byte for byte, zero-length payloads included.                           *)
(***************************************************************************)
C6_BinaryRoundTrip ==
    (pc = "finish" /\ patch.delta.flags_binary /\ patch.binary.contains_data
        /\ error = 0) =>
        LET back == apply_binary_delta(<<>>, contents_out, patch.binary.old_file)
        IN back.error = 0 /\ back.out = source

(***************************************************************************)
(* C7.  Deletion: for a patch whose delta status is deleted,               *)
(* git_apply__patch either succeeds with empty output, a null path and     *)
(* mode 0, or fails with the path null and the mode 0; the failure is      *)
(* "removal patch leaves file contents" or the error of the application    *)
(* step that failed (a hunk that did not apply, a line missing from the    *)
(* line table, a binary error).                                            *)
(***************************************************************************)
RemovalLeavesContents == <<"removal patch leaves file contents">>

BinaryErrors ==
    { <<"patch does not contain binary data">>, <<"inflate failed">>,
      <<"inflated delta does not match expected length">>,
      <<"failed to apply delta">>, <<"unknown binary delta type">>,
      <<"binary patch did not apply cleanly">> }

C7_Deletion ==
    (pc = "done" /\ patch.delta.status = GIT_DELTA_DELETED) =>
        /\ filename_out = NULL
        /\ mode_out = 0
        /\ \/ error = 0 /\ contents_out = <<>>
           \/ error < 0 /\ errmsg = RemovalLeavesContents /\ contents_out # <<>>
           \/ /\ error < 0
              /\ ~patch.delta.flags_binary
              /\ Len(patch.hunks) # 0
              /\ errmsg[1] \in {"hunk at line %d did not apply",
                                "preimage does not contain line %zu"}
           \/ error < 0 /\ patch.delta.flags_binary /\ errmsg \in BinaryErrors

\* A removal patch whose hunk removed every line of the source succeeded
\* with empty output.
C7_Witness ==
    /\ pc = "done"
    /\ patch.delta.status = GIT_DELTA_DELETED
    /\ Len(patch.hunks) # 0
    /\ source # <<>>
    /\ error = 0
    /\ contents_out = <<>>
    /\ filename_out = NULL
    /\ mode_out = 0

\* C7 as first stated: success with empty output, or "removal patch leaves
\* file contents".
C7_Original ==
    (pc = "done" /\ patch.delta.status = GIT_DELTA_DELETED) =>
        \/ error = 0 /\ contents_out = <<>> /\ filename_out = NULL /\ mode_out = 0
        \/ error < 0 /\ errmsg = RemovalLeavesContents

(***************************************************************************)
(* C9.  Per-file application is all-or-nothing: whenever git_apply__patch  *)
(* returns an error, the output contents buffer holds no bytes, out_path   *)
(* is null and out_mode is 0.                                              *)
(***************************************************************************)
C9_AllOrNothing ==
    (pc = "done" /\ error < 0) =>
        contents_out = <<>> /\ filename_out = NULL /\ mode_out = 0

(***************************************************************************)
(* C10.  Single-hunk text edit: on the source "A\nB\nC\n", the patch with *)
(* one hunk of lines [context "A\n", deletion "B\n", addition "B2\n",     *)
(* context "C\n"] succeeds and returns "A\nB2\nC\n" when new_start is 1   *)
(* (or 0); with new_start = 2 or more it fails with "hunk at line          *)
(* <new_start> did not apply" and returns no bytes.                        *)
(***************************************************************************)
IsEditScenario ==
    /\ source = LineA \o LineB \o LineC
    /\ patch.lines = EditB
    /\ Len(patch.hunks) = 1
    /\ patch.hunks[1].line_start = 0
    /\ patch.hunks[1].line_count = Len(EditB)
    /\ patch.delta.status = GIT_DELTA_MODIFIED
    /\ ~patch.delta.flags_binary

C10_SingleHunkEdit ==
    (pc = "done" /\ IsEditScenario) =>
        IF patch.hunks[1].new_start <= 1
          THEN error = 0 /\ contents_out = LineA \o LineB2 \o LineC
        ELSE /\ error = GIT_EAPPLYFAIL
             /\ errmsg = DidNotApply(patch.hunks[1])
             /\ contents_out = <<>>

\* The edit applied at new_start = 1.
C10_Witness ==
    /\ pc = "done"
    /\ IsEditScenario
    /\ patch.hunks[1].new_start = 1
    /\ error = 0
    /\ contents_out = LineA \o LineB2 \o LineC

\* C10 as first stated: with new_start = 2 the edit succeeds.
C10_Original ==
    (pc = "done" /\ IsEditScenario /\ patch.hunks[1].new_start = 2) =>
        (error = 0 /\ contents_out = LineA \o LineB2 \o LineC)

(***************************************************************************)
(* C11.  Append at end: on the source "A\n", the hunk [context "A\n",      *)
(* addition "B\n"] applies and gives "A\nB\n" when its new_start is 1 (or  *)
(* 0); with new_start = 2 or more the context line is looked for at image  *)
(* line new_start - 1, past the only line, and the call fails with "hunk   *)
(* at line <new_start> did not apply" and returns no bytes.                *)
(***************************************************************************)
IsAppendScenario ==
    /\ source = LineA
    /\ patch.lines = AppendB
    /\ Len(patch.hunks) = 1
    /\ patch.hunks[1].line_start = 0
    /\ patch.hunks[1].line_count = Len(AppendB)
    /\ patch.delta.status = GIT_DELTA_MODIFIED
    /\ ~patch.delta.flags_binary

C11_AppendAtEnd ==
    (pc = "done" /\ IsAppendScenario) =>
        IF patch.hunks[1].new_start <= 1
          THEN error = 0 /\ contents_out = LineA \o LineB
        ELSE /\ error = GIT_EAPPLYFAIL
             /\ errmsg = DidNotApply(patch.hunks[1])
             /\ contents_out = <<>>

\* The line appended with new_start = 1.
C11_Witness ==
    /\ pc = "done"
    /\ IsAppendScenario
    /\ patch.hunks[1].new_start = 1
    /\ error = 0
    /\ contents_out = LineA \o LineB

\* C11 as first stated: with new_start = 2 the line is appended.
C11_Original ==
    (pc = "done" /\ IsAppendScenario /\ patch.hunks[1].new_start = 2) =>
        (error = 0 /\ contents_out = LineA \o LineB)

(***************************************************************************)
(* C12.  Deletion patch scenario.  A patch with status deleted, no hunks   *)
(* and no binary flag copies the source "A\n" and therefore fails with     *)
(* "removal patch leaves file contents", the path null and the mode 0; the *)
(* deletion succeeds with empty output and a null path when its hunk       *)
(* removes the line "A\n" at new_start 0 or 1.  On the source "A\nB\n" a   *)
(* deletion patch whose single hunk removes only "A\n" at new_start 0 or 1 *)
(* fails with "removal patch leaves file contents".                        *)
(***************************************************************************)
IsDeletion == patch.delta.status = GIT_DELTA_DELETED /\ ~patch.delta.flags_binary

IsRemoveA ==
    /\ IsDeletion
    /\ patch.lines = RemoveA
    /\ patch.hunks = <<Hunk(patch.hunks[1].new_start, 0, 1)>>
    /\ patch.hunks[1].new_start <= 1

RemovalFailed ==
    /\ error = GIT_EAPPLYFAIL
    /\ errmsg = RemovalLeavesContents
    /\ filename_out = NULL
    /\ mode_out = 0

C12_DeletionScenario ==
    pc = "done" =>
        /\ (IsDeletion /\ patch.hunks = <<>> /\ source = LineA) => RemovalFailed
        /\ (Len(patch.hunks) = 1 /\ IsRemoveA /\ source = LineA) =>
               (error = 0 /\ contents_out = <<>> /\ filename_out = NULL)
        /\ (Len(patch.hunks) = 1 /\ IsRemoveA /\ source = LineA \o LineB) =>
               RemovalFailed

\* The deletion without hunks has failed on "A\n", the copied bytes still in
\* the output buffer.
C12_Witness ==
    /\ pc = "done"
    /\ IsDeletion /\ patch.hunks = <<>> /\ source = LineA
    /\ RemovalFailed
    /\ contents_out = LineA

\* C12 as first stated: the deletion without hunks succeeds on "A\n".
C12_Original ==
    (pc = "done" /\ IsDeletion /\ patch.hunks = <<>> /\ source = LineA) =>
        (error = 0 /\ contents_out = <<>> /\ filename_out = NULL)

(***************************************************************************)
(* C13.  With location == index the commit of git_apply runs in a fixed    *)
(* order: the old path of every deleted or renamed delta is removed from   *)
(* the repository's index, then every entry of the postimage index is      *)
(* added, then the index is written once; checkout is never invoked.       *)
(* After a successful call the old path of a deleted or renamed delta is   *)
(* absent from the index unless the postimage index holds an entry for it, *)
(* and then it is present with the postimage blob.                         *)
(***************************************************************************)
CommitRank(c) ==
    CASE c.fn = "git_index_remove" -> 1
      [] c.fn = "git_index_add" -> 2
      [] c.fn = "git_index_write" -> 3
      [] OTHER -> 0

IsGone(p) ==
    p.delta.status = GIT_DELTA_DELETED \/ p.delta.status = GIT_DELTA_RENAMED

OldPathsGone == {diff[k].delta.old_file.path : k \in {j \in 1..Len(diff) : IsGone(diff[j])}}

PassPostimage == ApplyPass(Len(diff)).postimage

CallsOf(fn) == SelectSeq(calls, LAMBDA c : c.fn = fn)

IndexCommitted ==
    pc = "returned" /\ opts.location = "index" /\ ApplyPass(Len(diff)).error = 0

C13_IndexCommitOrder ==
    IndexCommitted =>
        /\ \A k \in 1..Len(calls) : CommitRank(calls[k]) > 0
        /\ \A i, j \in 1..Len(calls) :
              i < j => CommitRank(calls[i]) <= CommitRank(calls[j])
        /\ Len(CallsOf("git_index_write")) <= 1
        /\ error = 0 =>
              /\ [k \in 1..Len(CallsOf("git_index_remove")) |->
                     CallsOf("git_index_remove")[k].path]
                 = [k \in 1..Len(SelectSeq(diff, IsGone)) |->
                     SelectSeq(diff, IsGone)[k].delta.old_file.path]
              /\ {c.path : c \in {CallsOf("git_index_add")[k] :
                                    k \in 1..Len(CallsOf("git_index_add"))}}
                 = DOMAIN PassPostimage
              /\ Len(CallsOf("git_index_add")) = Cardinality(DOMAIN PassPostimage)
              /\ Len(CallsOf("git_index_write")) = 1
              /\ \A q \in OldPathsGone :
                    IF q \in DOMAIN PassPostimage
                      THEN q \in DOMAIN repo.index /\ repo.index[q] = PassPostimage[q]
                    ELSE q \notin DOMAIN repo.index
              /\ \A q \in DOMAIN PassPostimage :
                    q \in DOMAIN repo.index /\ repo.index[q] = PassPostimage[q]
              /\ repo.index_file = repo.index
              /\ repo.workdir = before.workdir

\* A committed batch in which the old path of a renamed delta is added again
\* by another delta: the path is in the index with the postimage blob.
C13_Witness ==
    /\ IndexCommitted
    /\ error = 0
    /\ \E q \in OldPathsGone :
          /\ q \in DOMAIN PassPostimage
          /\ q \in DOMAIN repo.index
          /\ q \in DOMAIN before.index
          /\ repo.index[q].id = LineB
          /\ before.index[q].id = LineA
    /\ \E q \in OldPathsGone : q \notin DOMAIN repo.index

(***************************************************************************)
(* C14.  git_apply_tree seeds the postimage index from the tree, removes   *)
(* the old path of every delta in one full pass before any delta is        *)
(* applied, then applies the deltas in declared order.  On success the     *)
(* index it returns holds the tree's entries minus all old paths, plus one *)
(* entry (new path, mode, blob of the applied contents) per delta that is  *)
(* not a deletion; the repository's index and the working directory are    *)
(* not written.                                                            *)
(***************************************************************************)
TreeOldPaths == {diff[k].delta.old_file.path : k \in 1..Len(diff)}

\* The deltas among the first n that leave an entry under the path q.
EntriesFor(q, n) ==
    {k \in 1..n : diff[k].delta.status # GIT_DELTA_DELETED
                    /\ diff[k].delta.new_file.path = q}

LastOf(S) == CHOOSE k \in S : \A j \in S : j <= k

\* The entry that delta k leaves: its contents are the patch applied to what
\* the tree holds under the old path (to nothing for an added file).
AppliedEntry(k) ==
    LET p == diff[k]
        src == IF p.delta.status = GIT_DELTA_ADDED THEN <<>>
               ELSE before.tree[p.delta.old_file.path].id
    IN [mode |-> IF p.delta.new_file.mode # 0 THEN p.delta.new_file.mode
                 ELSE GIT_FILEMODE_BLOB,
        id |-> git_apply__patch(<<>>, src, Len(src), p).contents_out]

\* The tree minus all old paths plus the entries of the first n deltas.
TreeResult(n) ==
    [q \in (DOMAIN before.tree \ TreeOldPaths)
             \cup {q \in Paths : EntriesFor(q, n) # {}} |->
        IF EntriesFor(q, n) # {} THEN AppliedEntry(LastOf(EntriesFor(q, n)))
        ELSE before.tree[q]]

C14_TreeApply ==
    /\ (pc = "tree_pass" /\ error = 0) => postimage = TreeResult(delta_i - 1)
    /\ (pc = "returned" /\ opts.location = "none" /\ error = 0) =>
          /\ out_index = TreeResult(Len(diff))
          /\ calls = <<>>
          /\ repo.index = before.index
          /\ repo.index_file = before.index_file
          /\ repo.workdir = before.workdir

\* A rename with modification followed by a rename back onto its old path:
\* the returned index holds both paths, the first under the edited blob.
C14_Witness ==
    /\ pc = "returned" /\ opts.location = "none" /\ error = 0
    /\ Len(diff) = 2
    /\ diff[1].delta.status = GIT_DELTA_RENAMED /\ diff[1].hunks # <<>>
    /\ diff[2].delta.status = GIT_DELTA_RENAMED
    /\ diff[1].delta.old_file.path = diff[2].delta.new_file.path
    /\ diff[1].delta.old_file.path \in DOMAIN out_index
    /\ diff[1].delta.new_file.path \in DOMAIN out_index
    /\ out_index[diff[1].delta.new_file.path].id = LineB
    /\ before.tree[diff[1].delta.old_file.path].id = LineA

(***************************************************************************)
(* C15.  In workdir-only mode the repository's index is never updated:     *)
(* git_apply with location == workdir makes no call on the index and       *)
(* invokes checkout with the flags safe, disable-pathspec-match and        *)
(* don't-update-index; with location == both checkout gets the first two   *)
(* flags and not the third.                                                *)
(***************************************************************************)
C15_WorkdirOnly ==
    /\ opts.location = "workdir" =>
          /\ repo.index = before.index
          /\ repo.index_file = before.index_file
    /\ opts.location \in {"workdir", "both"} =>
          /\ Len(calls) <= 1
          /\ \A k \in 1..Len(calls) :
                /\ calls[k].fn = "git_checkout_index"
                /\ GIT_CHECKOUT_SAFE \in calls[k].strategy
                /\ GIT_CHECKOUT_DISABLE_PATHSPEC_MATCH \in calls[k].strategy
                /\ (GIT_CHECKOUT_DONT_UPDATE_INDEX \in calls[k].strategy)
                      <=> (opts.location = "workdir")
          /\ (pc = "returned" /\ ApplyPass(Len(diff)).error = 0) => Len(calls) = 1

\* A workdir-only application that changed a file of the working directory
\* the index also holds, and left the index alone.
C15_Witness ==
    /\ pc = "returned" /\ opts.location = "workdir" /\ error = 0
    /\ Len(calls) = 1
    /\ GIT_CHECKOUT_DONT_UPDATE_INDEX \in calls[1].strategy
    /\ \E q \in DOMAIN before.workdir \cap DOMAIN before.index \cap DOMAIN repo.workdir :
          /\ repo.workdir[q] # before.workdir[q]
          /\ repo.index[q].id # repo.workdir[q]
    /\ repo.index = before.index

(***************************************************************************)
(* C16.  In a batch, apply_one reads the old path of a delta that is       *)
(* neither added nor deleted from the preimage reader and applies the      *)
(* patch to what it read; when the reader does not find the path the batch *)
(* fails with the apply-failure error, never with a bare not-found.  For   *)
(* an added delta nothing is read: the patch is applied to an empty        *)
(* source, whatever the reader holds under that path.                      *)
(***************************************************************************)
InPass == pc \in {"apply_pass", "tree_pass"}

IsRead(p) ==
    p.delta.status # GIT_DELTA_ADDED /\ p.delta.status # GIT_DELTA_DELETED

\* What git_apply__patch returns for the patch on the given source.
PatchOn(p, src) == git_apply__patch(<<>>, src, Len(src), p)

C16_PreimageRead ==
    /\ error # GIT_ENOTFOUND
    /\ (pc = "returned" /\ calls = <<>> /\ delta_i <= Len(diff)
          /\ IsRead(diff[delta_i])
          /\ diff[delta_i].delta.old_file.path \notin DOMAIN BeforeReader) =>
             error = GIT_EAPPLYFAIL
    /\ (InPass /\ delta_i > 1 /\ IsRead(diff[delta_i - 1])) =>
          /\ diff[delta_i - 1].delta.old_file.path \in DOMAIN BeforeReader
          /\ postimage[diff[delta_i - 1].delta.new_file.path].id
             = PatchOn(diff[delta_i - 1],
                       BeforeReader[diff[delta_i - 1].delta.old_file.path]).contents_out
    /\ (InPass /\ delta_i > 1 /\ diff[delta_i - 1].delta.status = GIT_DELTA_ADDED) =>
          postimage[diff[delta_i - 1].delta.new_file.path].id
          = PatchOn(diff[delta_i - 1], <<>>).contents_out

\* The batch failed on a modified delta whose file the reader does not hold,
\* after an added delta had been applied over a file the reader does hold.
C16_Witness ==
    /\ pc = "returned" /\ calls = <<>> /\ error = GIT_EAPPLYFAIL
    /\ delta_i = 2 /\ Len(diff) = 2
    /\ diff[1].delta.status = GIT_DELTA_ADDED
    /\ diff[1].delta.new_file.path \in DOMAIN BeforeReader
    /\ IsRead(diff[2])
    /\ diff[2].delta.old_file.path \notin DOMAIN BeforeReader

(***************************************************************************)
(* C17.  A successful apply_hunk changes the image to                      *)
(* old[0..target) ++ postimage_seq ++ old[target + len(preimage_seq)..]:   *)
(* the lines before the anchor and after the matched range keep their      *)
(* content and order and the length changes by len(postimage_seq) -        *)
(* len(preimage_seq), whether the postimage is the longer or the shorter;   *)
(* a failed apply_hunk leaves the image unchanged.                         *)
(***************************************************************************)
C17_SpliceFrame ==
    [][(pc = "hunks" /\ hunk_i <= Len(patch.hunks)) =>
        LET h == patch.hunks[hunk_i]
            at == Target(h, image)
        IN IF error' = 0
             THEN LET pre == PreimageSeq(patch, h)
                      post == PostimageSeq(patch, h)
                  IN /\ image' = Splice(image, at, Len(pre), post)
                     /\ Len(image') = Len(image) + Len(post) - Len(pre)
                     /\ \A k \in 1..at : image'[k] = image[k]
                     /\ \A k \in 1..Len(post) : image'[at + k] = post[k]
                     /\ \A k \in (at + Len(pre) + 1)..Len(image) :
                           image'[k + Len(post) - Len(pre)] = image[k]
           ELSE image' = image]_vars

\* The image the call built from the source.
SourceImage == patch_image_init_fromstr(source \o tail, Len(source))

\* A hunk with more postimage than preimage lines was applied between two
\* lines of the source, both of which are still there.
C17_Witness ==
    /\ pc = "hunks" /\ hunk_i = 2 /\ error = 0
    /\ Len(PostimageSeq(patch, patch.hunks[1])) > Len(PreimageSeq(patch, patch.hunks[1]))
    /\ Target(patch.hunks[1], SourceImage) = 1
    /\ Len(image) > Len(SourceImage)
    /\ image[1] = SourceImage[1]
    /\ image[Len(image)] = SourceImage[Len(SourceImage)]
    /\ Len(SourceImage) = 2

(***************************************************************************)
(* C18.  The declared inflatedlen is authoritative.  A binary payload with *)
(* datalen > 0 that apply_binary inflates to a length other than its       *)
(* inflatedlen makes the call fail with "inflated delta does not match     *)
(* expected length" and return no bytes: the new_file payload whenever the *)
(* patch contains binary data, the old_file payload whenever the forward   *)
(* application succeeded, whatever the payload's type and even if the      *)
(* forward result would otherwise have verified.  When the forward         *)
(* application fails first, for another reason, the call reports that      *)
(* failure and the old_file payload is not inflated.  A patch with such a   *)
(* payload never applies and never returns bytes.                          *)
(***************************************************************************)
InflatedLenMismatch == <<"inflated delta does not match expected length">>

Mismatch(f) ==
    /\ f.datalen > 0
    /\ git_zstream_inflatebuf(f.data).error = 0
    /\ Len(git_zstream_inflatebuf(f.data).buf) # f.inflatedlen

IsBinaryDone == pc = "done" /\ patch.delta.flags_binary

Forward == apply_binary_delta(<<>>, source, patch.binary.new_file)

MismatchFailure ==
    /\ error = GIT_EAPPLYFAIL
    /\ errmsg = InflatedLenMismatch
    /\ contents_out = <<>>

C18_InflatedLen ==
    IsBinaryDone =>
        /\ (Mismatch(patch.binary.new_file) \/ Mismatch(patch.binary.old_file)) =>
              (error < 0 /\ contents_out = <<>>)
        /\ (patch.binary.contains_data /\ Mismatch(patch.binary.new_file)) =>
              MismatchFailure
        /\ (patch.binary.contains_data /\ Mismatch(patch.binary.old_file)
              /\ Forward.error = 0) => MismatchFailure

\* The verification payload inflates to the source itself, so the forward
\* result would have verified, but it declares another length.
C18_Witness ==
    /\ IsBinaryDone
    /\ patch.binary.contains_data
    /\ ~Mismatch(patch.binary.new_file)
    /\ patch.binary.new_file.datalen > 0
    /\ Forward.error = 0 /\ Forward.out # source
    /\ Mismatch(patch.binary.old_file)
    /\ patch.binary.old_file.type = GIT_DIFF_BINARY_LITERAL
    /\ git_zstream_inflatebuf(patch.binary.old_file.data).buf = source
    /\ MismatchFailure

\* C18 as first stated: a payload of either side that inflates to another
\* length than declared gives this very failure.
C18_Original ==
    (IsBinaryDone /\ patch.binary.contains_data
        /\ (Mismatch(patch.binary.new_file) \/ Mismatch(patch.binary.old_file))) =>
        MismatchFailure

(***************************************************************************)
(* C19.  For a delta with status deleted apply_one does nothing beyond     *)
(* materializing the patch: no preimage is read, git_apply__patch is not   *)
(* called, no blob is written and no entry is added, and it succeeds       *)
(* whatever the preimage holds (no file, or contents that the patch's      *)
(* hunks would not remove); the postimage index is unchanged.              *)
(***************************************************************************)
C19_DeletedDelta ==
    [][(InPass /\ delta_i <= Len(diff)
          /\ diff[delta_i].delta.status = GIT_DELTA_DELETED) =>
            /\ error' = 0
            /\ postimage' = postimage
            /\ repo' = repo
            /\ delta_i' = delta_i + 1
            /\ pc' = pc
            /\ UNCHANGED <<patch_locals, calls, out_index>>]_vars

\* Two deleted deltas have passed, one for a path the reader does not hold
\* and one whose hunk does not remove what the reader holds.
C19_Witness ==
    /\ pc = "apply_pass" /\ delta_i = 3 /\ error = 0
    /\ diff[1].delta.status = GIT_DELTA_DELETED
    /\ diff[1].delta.old_file.path \notin DOMAIN BeforeReader
    /\ diff[2].delta.status = GIT_DELTA_DELETED
    /\ diff[2].delta.old_file.path \in DOMAIN BeforeReader
    /\ PatchOn(diff[2], BeforeReader[diff[2].delta.old_file.path]).error < 0
    /\ postimage = <<>>
    /\ repo = before

(***************************************************************************)
(* C20.  A hunk whose preimage sequence is empty (additions only) never    *)
(* fails with "hunk at line <new_start> did not apply": its anchor is      *)
(* clamped to the length of the image, so it applies for any new_start,    *)
(* and when new_start - 1 is greater than the length of the image the      *)
(* added lines are appended at the end of the image.                       *)
(***************************************************************************)
C20_AdditionsOnly ==
    [][(pc = "hunks" /\ hunk_i <= Len(patch.hunks)
          /\ hunk_has_all_lines(patch, patch.hunks[hunk_i])
          /\ PreimageSeq(patch, patch.hunks[hunk_i]) = <<>>) =>
            LET h == patch.hunks[hunk_i]
                post == PostimageSeq(patch, h)
            IN /\ error' = 0
               /\ errmsg' # DidNotApply(h)
               /\ pc' = "hunks"
               /\ IF h.new_start > Len(image) + 1
                    THEN image' = image \o post
                  ELSE image' = Splice(image,
                                       IF h.new_start = 0 THEN 0 ELSE h.new_start - 1,
                                       0, post)]_vars

\* Lines added by a hunk whose new_start lies beyond the end of a non-empty
\* image: they are the last lines of the image.
C20_Witness ==
    /\ pc = "hunks" /\ hunk_i = 2 /\ error = 0
    /\ PreimageSeq(patch, patch.hunks[1]) = <<>>
    /\ PostimageSeq(patch, patch.hunks[1]) # <<>>
    /\ SourceImage # <<>>
    /\ patch.hunks[1].new_start > Len(SourceImage) + 1
    /\ image = SourceImage \o PostimageSeq(patch, patch.hunks[1])

=============================================================================
